---- MODULE Spec2Model ----
(***************************************************************************)
(* Model of the control-channel bridge (listen_for_ui_messages), the login *)
(* bootstrap (handle_login, login_with_creds) and the packet codec         *)
(* (Packet::from_bytes / to_bytes, CircuitCodeData) of metaverse_client.   *)
(*                                                                         *)
(* Bytes are naturals 0..255, byte strings are sequences.  Rust's          *)
(* Option<T> is None / Some(v); a call's outcome is Ok(v), Err(e) or       *)
(* Panic(site): a panic unwinds the bridge task, it is not a value the     *)
(* caller can match on.                                                    *)
(***************************************************************************)
EXTENDS Integers, Sequences, FiniteSets, TLC

VARIABLES
    pc,              \* position of the bridge task
    panic,           \* None, or Some(site) once the bridge task has panicked
    inbox,           \* history: outcome of every recv_from, with its decoding
    calls,           \* history: every Mailbox send / do_send the bridge issued
    mailbox,         \* messages the Mailbox accepted, in arrival order
    log,             \* log lines written by the bridge
    login_response,  \* handle_login's local: the LoginResponse in hand
    logins           \* history: every handle_login call, with what the login
                     \* call yielded and, once it returned, what it returned

vars == <<pc, panic, inbox, calls, mailbox, log, login_response, logins>>

----------------------------------------------------------------------------
(* Bounds of the model *)

\* loop iterations (recv_from completions) of the bridge that are explored
MaxDatagrams == 2
\* bytes that a control-channel datagram may carry beyond a 36-byte body
MaxExtra == 1

----------------------------------------------------------------------------
(* Option and call outcomes *)

None == [tag |-> "None"]
Some(v) == [tag |-> "Some", value |-> v]
unwrap_or(o, d) == IF o.tag = "Some" THEN o.value ELSE d

Ok(v) == [tag |-> "Ok", value |-> v]
Err(e) == [tag |-> "Err", error |-> e]
Panic(site) == [tag |-> "Panic", site |-> site]

----------------------------------------------------------------------------
(* Byte strings *)

Byte == 0..255

\* bytes[a..b] of Rust (0-based, end exclusive), for a <= b <= len
Slice(bytes, a, b) == SubSeq(bytes, a + 1, b)

\* u32::to_le_bytes
to_le_bytes(n) ==
    << n % 256, (n \div 256) % 256, (n \div 65536) % 256, (n \div 16777216) % 256 >>

\* u32::from_le_bytes on a 4-byte array
from_le_bytes(b) == b[1] + 256 * b[2] + 65536 * b[3] + 16777216 * b[4]

\* u32 big-endian, as the header stores the sequence number
to_be_bytes(n) ==
    << (n \div 16777216) % 256, (n \div 65536) % 256, (n \div 256) % 256, n % 256 >>

from_be_bytes(b) == 16777216 * b[1] + 65536 * b[2] + 256 * b[3] + b[4]

----------------------------------------------------------------------------
(* CircuitCodeData: circuit_code.rs *)

\* size of the three fields on the wire: 4 + 16 + 16
CircuitCodeSize == 36

\* CircuitCodeData::from_bytes.  A slice bytes[a..b] with b > bytes.len()
\* panics; the conversions of an in-range slice cannot fail.  Bytes past
\* offset 36 are not looked at.
CircuitCodeData_from_bytes(bytes) ==
    IF Len(bytes) < 4 THEN Panic("circuit_code.rs:35 bytes[0..4]")
    ELSE IF Len(bytes) < 20 THEN Panic("circuit_code.rs:36 bytes[4..20]")
    ELSE IF Len(bytes) < CircuitCodeSize THEN Panic("circuit_code.rs:37 bytes[20..36]")
    ELSE Ok([code |-> from_le_bytes(Slice(bytes, 0, 4)),
             session_id |-> Slice(bytes, 4, 20),
             id |-> Slice(bytes, 20, 36)])

\* CircuitCodeData_to_bytes with the code written big-endian
CircuitCodeData_to_bytes_be(data) ==
    to_be_bytes(data.code) \o data.session_id \o data.id

\* CircuitCodeData::to_bytes
CircuitCodeData_to_bytes(data) ==
    to_le_bytes(data.code) \o data.session_id \o data.id

----------------------------------------------------------------------------
(* Header: models/header.rs is not among the sources; modelled from the     *)
(* description of the header codec: flags, 4-byte big-endian sequence       *)
(* number, extra byte, then the identifier in its frequency tier.           *)

\* flags + sequence number + extra byte + a one-byte identifier
MinHeaderSize == 7

FlagZerocoded == 128
FlagReliable == 64
FlagResent == 32
FlagAppendedAcks == 16

HasFlag(flags, bit) == (flags \div bit) % 2 = 1

\* the trailing acknowledgments: the last byte counts the 4-byte sequence
\* numbers that precede it
TrailingAcks(bytes) ==
    LET n == bytes[Len(bytes)]
        first == Len(bytes) - 1 - 4 * n
    IN [k \in 1..n |-> from_be_bytes(Slice(bytes, first + 4 * (k - 1), first + 4 * k))]

\* Header::try_from_bytes
Header_try_from_bytes(bytes) ==
    IF Len(bytes) < MinHeaderSize THEN Err("MalformedHeader")
    ELSE
        LET flags == bytes[1]
            low == bytes[7] = 255 /\ Len(bytes) >= 8 /\ bytes[8] = 255
            medium == bytes[7] = 255 /\ ~low
            size == IF low THEN 10 ELSE IF medium THEN 8 ELSE 7
            acks == HasFlag(flags, FlagAppendedAcks)
        IN  IF Len(bytes) < size THEN Err("MalformedHeader")
            ELSE IF acks /\ Len(bytes) < size + 1 + 4 * bytes[Len(bytes)]
            THEN Err("MalformedHeader")
            ELSE Ok([id |-> IF low THEN 256 * bytes[9] + bytes[10]
                            ELSE IF medium THEN bytes[8] ELSE bytes[7],
                     frequency |-> IF low THEN "Low"
                                   ELSE IF medium THEN "Medium" ELSE "High",
                     reliable |-> HasFlag(flags, FlagReliable),
                     sequence_number |-> from_be_bytes(Slice(bytes, 1, 5)),
                     appended_acks |-> acks,
                     zerocoded |-> HasFlag(flags, FlagZerocoded),
                     resent |-> HasFlag(flags, FlagResent),
                     ack_list |-> IF acks THEN Some(TrailingAcks(bytes)) ELSE None,
                     size |-> Some(size)])

\* Header::to_bytes
Header_to_bytes(header) ==
    << (IF header.zerocoded THEN FlagZerocoded ELSE 0)
       + (IF header.reliable THEN FlagReliable ELSE 0)
       + (IF header.resent THEN FlagResent ELSE 0)
       + (IF header.appended_acks THEN FlagAppendedAcks ELSE 0) >>
    \o to_be_bytes(header.sequence_number)
    \o << 0 >>
    \o (IF header.frequency = "Low"
        THEN << 255, 255, (header.id \div 256) % 256, header.id % 256 >>
        ELSE IF header.frequency = "Medium" THEN << 255, header.id % 256 >>
        ELSE << header.id % 256 >>)

----------------------------------------------------------------------------
(* PacketType: models/packet_types.rs is not among the sources; the         *)
(* registry is modelled from its description and from the constructors      *)
(* that the sources call.                                                   *)

\* Packet::new_circuit_code sets id 3, frequency Low
CircuitCodeId == 3
\* identifiers of the two other registered bodies the bridge deals with
CompleteAgentMovementId == 249
LoginId == 66

\* the body codecs of Login and CompleteAgentMovement: the body is kept as
\* the fields the sources give it
Login_from_bytes(bytes) == Ok([credentials |-> bytes])
Login_to_bytes(data) == data.credentials

CompleteAgentMovementData_from_bytes(bytes) ==
    IF Len(bytes) < CircuitCodeSize THEN Err("BodyTooShort")
    ELSE Ok([agent_id |-> Slice(bytes, 0, 16),
             session_id |-> Slice(bytes, 16, 32),
             circuit_code |-> from_le_bytes(Slice(bytes, 32, 36))])

CompleteAgentMovementData_to_bytes(data) ==
    data.agent_id \o data.session_id \o to_le_bytes(data.circuit_code)

\* the variant a decoded body is wrapped in
Variant(type, r) ==
    IF r.tag = "Ok" THEN Ok([type |-> type, data |-> r.value]) ELSE r

\* PacketType::from_id
PacketType_from_id(id, frequency, bytes) ==
    IF frequency = "Low" /\ id = CircuitCodeId
    THEN Variant("CircuitCode", CircuitCodeData_from_bytes(bytes))
    ELSE IF frequency = "Low" /\ id = CompleteAgentMovementId
    THEN Variant("CompleteAgentMovement", CompleteAgentMovementData_from_bytes(bytes))
    ELSE IF frequency = "Low" /\ id = LoginId
    THEN Variant("Login", Login_from_bytes(bytes))
    ELSE Err("UnknownMessageType")

\* PacketData::to_bytes of the variant's payload
PacketType_to_bytes(body) ==
    IF body.type = "CircuitCode" THEN CircuitCodeData_to_bytes(body.data)
    ELSE IF body.type = "CompleteAgentMovement"
    THEN CompleteAgentMovementData_to_bytes(body.data)
    ELSE Login_to_bytes(body.data)

----------------------------------------------------------------------------
(* Packet: models/packet.rs *)

\* the slice handed to the registry: everything from header.size on
body_bytes(header, bytes) ==
    IF unwrap_or(header.size, 0) < Len(bytes)
    THEN Slice(bytes, unwrap_or(header.size, 0), Len(bytes))
    ELSE << >>

\* Packet_from_bytes with the registry's Result unwrapped like the header's
Packet_from_bytes_unwrap(bytes) ==
    LET h == Header_try_from_bytes(bytes)
    IN  IF h.tag # "Ok" THEN Panic("packet.rs:24 Header::try_from_bytes unwrap")
        ELSE LET header == h.value
                 body == PacketType_from_id(header.id, header.frequency,
                                            body_bytes(header, bytes))
             IN  IF body.tag = "Ok"
                 THEN Ok([kind |-> "Packet", header |-> header, body |-> body.value])
                 ELSE Panic("packet.rs:32 PacketType::from_id unwrap")

\* Packet::from_bytes: the header's Result is unwrapped, the registry's is
\* propagated with `?`
Packet_from_bytes(bytes) ==
    LET h == Header_try_from_bytes(bytes)
    IN  IF h.tag # "Ok" THEN Panic("packet.rs:24 Header::try_from_bytes unwrap")
        ELSE LET header == h.value
                 body == PacketType_from_id(header.id, header.frequency,
                                            body_bytes(header, bytes))
             IN  IF body.tag = "Ok"
                 THEN Ok([kind |-> "Packet", header |-> header, body |-> body.value])
                 ELSE body

\* Packet::to_bytes
Packet_to_bytes(packet) ==
    Header_to_bytes(packet.header) \o PacketType_to_bytes(packet.body)

\* Packet::new_circuit_code
Packet_new_circuit_code(circuit_code_block) ==
    [kind |-> "Packet",
     header |-> [id |-> CircuitCodeId, frequency |-> "Low", reliable |-> TRUE,
                 sequence_number |-> 0, appended_acks |-> FALSE,
                 zerocoded |-> FALSE, resent |-> FALSE, ack_list |-> None,
                 size |-> None],
     body |-> [type |-> "CircuitCode", data |-> circuit_code_block]]

\* Packet::new_complete_agent_movement
Packet_new_complete_agent_movement(data) ==
    [kind |-> "Packet",
     header |-> [id |-> CompleteAgentMovementId, frequency |-> "Low",
                 reliable |-> TRUE, sequence_number |-> 0,
                 appended_acks |-> FALSE, zerocoded |-> FALSE, resent |-> FALSE,
                 ack_list |-> None, size |-> None],
     body |-> [type |-> "CompleteAgentMovement", data |-> data]]

----------------------------------------------------------------------------
(* What the environment can hand to the bridge *)

SessionUuid == [i \in 1..16 |-> 16 + i]
AgentUuid == [i \in 1..16 |-> 32 + i]

\* a Low-frequency header with sequence number 1
LowHeader(flags, id) ==
    << flags, 0, 0, 0, 1, 0, 255, 255, id \div 256, id % 256 >>

Prefix(bytes, n) == SubSeq(bytes, 1, n)

\* code 0x01020304, the two UUIDs, then bytes that belong to no field
WireBody ==
    << 4, 3, 2, 1 >> \o SessionUuid \o AgentUuid
    \o [i \in 1..MaxExtra |-> 200 + i]

\* datagrams cut short inside the header
TruncatedDatagrams ==
    { Prefix(LowHeader(FlagReliable, CircuitCodeId), n) : n \in 0..9 }

\* a CircuitCode header followed by 0 .. 36 + MaxExtra body bytes
CircuitCodeDatagrams ==
    { LowHeader(FlagReliable, CircuitCodeId) \o Prefix(WireBody, n) :
        n \in 0..(CircuitCodeSize + MaxExtra) }

\* a CircuitCode packet with one appended acknowledgment (of sequence 7)
AckedDatagram ==
    LowHeader(FlagReliable + FlagAppendedAcks, CircuitCodeId)
    \o Prefix(WireBody, CircuitCodeSize) \o << 0, 0, 0, 7 >> \o << 1 >>

\* well-formed headers of identifiers nothing is registered for
UnknownDatagrams ==
    { LowHeader(0, 500), << 0, 0, 0, 0, 2, 0, 7, 1 >> }

LoginDatagram == LowHeader(FlagReliable, LoginId) \o << 108, 111, 103 >>

Datagrams ==
    TruncatedDatagrams \cup CircuitCodeDatagrams \cup UnknownDatagrams
    \cup { AckedDatagram, LoginDatagram }

\* socket.recv_from: a datagram, or an I/O error
RecvOutcomes == { Ok(d) : d \in Datagrams } \cup { Err("io") }

\* the LoginResponse values: each identity field may be absent
LoginResponses ==
    [sim_ip : {None, Some("127.0.0.1")},
     sim_port : {None, Some(9000)},
     agent_id : {None, Some(AgentUuid)},
     session_id : {None, Some(SessionUuid)},
     circuit_code : {16909060}]

LoginErrors == { [reason |-> "Presence"], [reason |-> "Connection"] }

\* what awaiting the spawn_blocking handle yields: the login call's result,
\* or a join error when the blocking task panicked
JoinOutcomes ==
    { Ok(Ok(r)) : r \in LoginResponses } \cup { Ok(Err(e)) : e \in LoginErrors }
    \cup { Err("JoinError") }

----------------------------------------------------------------------------
(* Mailbox messages and errors: server_subscriber.rs *)

\* serde_json::to_string(&response), then String::into_bytes
to_string(response) == [json |-> response]
into_bytes(string) == [utf8 |-> string]

UiMessage_new(event, payload) ==
    [kind |-> "UiMessage", event_type |-> event, payload |-> payload]

SessionError_new_login_error(e) == [kind |-> "Login", error |-> e]

\* login_with_creds with a failed login answered by an empty response
login_with_creds_lenient(joined) ==
    IF joined.tag = "Ok" /\ joined.value.tag = "Ok" THEN Ok(joined.value.value)
    ELSE Ok([sim_ip |-> None, sim_port |-> None, agent_id |-> None,
             session_id |-> None, circuit_code |-> 0])

\* login_with_creds: the match on the joined result
login_with_creds(joined) ==
    IF joined.tag = "Ok" /\ joined.value.tag = "Ok" THEN Ok(joined.value.value)
    ELSE IF joined.tag = "Ok"
    THEN Err(SessionError_new_login_error(joined.value.error))
    ELSE Err(SessionError_new_login_error(
                [reason |-> "Unknown", message |-> "join error"]))

\* BootstrapSteps with the circuit announced before the session exists
BootstrapSteps_circuit_first ==
    << "notify", "circuit_code", "session", "complete_agent_movement" >>

\* the order of handle_login's sends
BootstrapSteps ==
    << "notify", "session", "circuit_code", "complete_agent_movement" >>

\* StepAfter with one resend: the Session is sent a second time after it
\* was accepted
StepAfter_resend(step) ==
    IF step = "session"
       /\ Len(SelectSeq(calls, LAMBDA c : c.datagram = Len(inbox)
                                          /\ c.msg.kind = "Session")) < 1
    THEN "session"
    ELSE IF step = "notify" THEN "session"
    ELSE IF step = "session" THEN "circuit_code"
    ELSE IF step = "circuit_code" THEN "complete_agent_movement"
    ELSE "recv"

\* the position after `step`'s send was accepted: the next send, or back in
\* the bridge loop once handle_login has returned Ok
StepAfter(step) ==
    LET i == CHOOSE k \in 1..Len(BootstrapSteps) : BootstrapSteps[k] = step
    IN  IF i = Len(BootstrapSteps) THEN "recv" ELSE BootstrapSteps[i + 1]

\* DeliveryError with the three phases coalesced into the generic kind
DeliveryError_coalesced(step, e) == [kind |-> "Mailbox", error |-> e]

\* the error handle_login returns when the send of `step` fails
DeliveryError(step, e) ==
    IF step = "session" THEN [kind |-> "Mailbox", error |-> e]
    ELSE IF step = "circuit_code" THEN [kind |-> "CircuitCode", error |-> e]
    ELSE [kind |-> "CompleteAgentMovement", error |-> e]

\* IsFatal with the refused notification returned as well
IsFatal_all(step) == TRUE

\* IsFatal with every refused send only logged
IsFatal_never(step) == FALSE

\* IsFatal with only the Session's failure returned
IsFatal_only_session(step) == step = "session"

\* whether a refused send of `step` makes handle_login return an error: the
\* refused notification is only logged (lines 111-119), the three sends
\* after it return (lines 126-166)
IsFatal(step) == step # "notify"

\* the first of the Options that .unwrap() is called on, in evaluation
\* order, that is None; None when all are Some
FirstNone(response, fields) ==
    IF \E i \in 1..Len(fields) : response[fields[i]].tag = "None"
    THEN Some(fields[CHOOSE i \in 1..Len(fields) :
                 /\ response[fields[i]].tag = "None"
                 /\ \A j \in 1..(i - 1) : response[fields[j]].tag = "Some"])
    ELSE None

\* the message each step builds, and the fields it unwraps to build it
StepUnwraps(step) ==
    IF step = "notify" THEN << >>
    ELSE IF step = "session"
    THEN << "sim_port", "sim_ip", "agent_id", "session_id" >>
    ELSE << "session_id", "agent_id" >>

StepMessage(step, response) ==
    IF step = "notify"
    THEN UiMessage_new("LoginResponseEvent", into_bytes(to_string(response)))
    ELSE IF step = "session"
    THEN [kind |-> "Session",
          server_socket |-> response.sim_port.value,
          url |-> response.sim_ip.value,
          agent_id |-> response.agent_id.value,
          session_id |-> response.session_id.value,
          socket |-> None]
    ELSE IF step = "circuit_code"
    THEN Packet_new_circuit_code(
            [code |-> response.circuit_code,
             session_id |-> response.session_id.value,
             id |-> response.agent_id.value])
    ELSE Packet_new_complete_agent_movement(
            [circuit_code |-> response.circuit_code,
             session_id |-> response.session_id.value,
             agent_id |-> response.agent_id.value])

\* IsLogin with the interception left out: every packet is forwarded
IsLogin_never(packet) == FALSE

\* the branch of the bridge loop that intercepts a login
IsLogin(packet) == packet.body.type = "Login"

----------------------------------------------------------------------------
(* The bridge task *)

Init ==
    /\ pc = "bind"
    /\ panic = None
    /\ inbox = << >>
    /\ calls = << >>
    /\ mailbox = << >>
    /\ log = << >>
    /\ login_response = None
    /\ logins = << >>

Line(level, text, detail) == [level |-> level, text |-> text, detail |-> detail]

\* a call on the Mailbox address made while datagram number n is handled
Call(n, op, msg, accepted) ==
    [datagram |-> n, op |-> op, msg |-> msg, accepted |-> accepted]

\* listen_for_ui_messages, line 57: UnixDatagram::bind(..).unwrap()
Bind(bound) ==
    /\ pc = "bind"
    /\ IF bound
       THEN /\ pc' = "recv"
            /\ log' = Append(log, Line("info", "Server listening for UI events", 0))
            /\ UNCHANGED panic
       ELSE /\ pc' = "panicked"
            /\ panic' = Some([site |-> "bind", unwrap |-> "Err"])
            /\ UNCHANGED log
    /\ UNCHANGED <<inbox, calls, mailbox, login_response, logins>>

\* AtRecvFrom with handle_login run as a task of its own: the loop is back
\* at recv_from while the bootstrap goes on
AtRecvFrom_detached == pc \notin { "bind", "panicked" }

\* the loop is at `socket.recv_from(..).await`: it gets there only from
\* the top of an iteration, so not while handle_login is being awaited
AtRecvFrom == pc = "recv"

\* one iteration of the loop of listen_for_ui_messages, up to the point
\* where it is back at recv_from or awaits the login call: `received` is
\* what recv_from yields, `accepted` whether the Mailbox takes a do_send
RecvFrom(received, accepted) ==
    /\ AtRecvFrom
    /\ Len(inbox) < MaxDatagrams
    /\ LET n == Len(inbox) + 1
           decoded == IF received.tag = "Ok"
                      THEN Packet_from_bytes(received.value) ELSE None
       IN  /\ inbox' = Append(inbox, [received |-> received, decoded |-> decoded])
           /\ IF received.tag = "Err"
              THEN /\ accepted
                   /\ log' = Append(log,
                        Line("warn", "Server failed to read buffer sent from UI", n))
                   /\ UNCHANGED <<pc, panic, calls, mailbox, logins>>
              ELSE IF decoded.tag = "Panic"
              THEN /\ accepted
                   /\ pc' = "panicked"
                   /\ panic' = Some([site |-> decoded.site, unwrap |-> "Err"])
                   /\ UNCHANGED <<calls, mailbox, log, logins>>
              ELSE IF decoded.tag = "Err"
              THEN /\ accepted
                   /\ log' = Append(log,
                        Line("warn", "Server failed to receive event from UI", n))
                   /\ UNCHANGED <<pc, panic, calls, mailbox, logins>>
              ELSE IF IsLogin(decoded.value)
              THEN /\ accepted
                   /\ pc' = "auth"
                   /\ logins' = Append(logins,
                        [datagram |-> n, joined |-> None, result |-> None])
                   /\ UNCHANGED <<panic, calls, mailbox, log>>
              ELSE /\ calls' = Append(calls, Call(n, "do_send", decoded.value, accepted))
                   /\ mailbox' = IF accepted THEN Append(mailbox, decoded.value)
                                 ELSE mailbox
                   /\ UNCHANGED <<pc, panic, log, logins>>
    /\ UNCHANGED login_response

\* handle_login returns `result` to the bridge loop, which logs it and goes
\* back to recv_from (lines 73-76); `history` is logins, up to date
Returned(result, history) ==
    /\ pc' = "recv"
    /\ logins' = [history EXCEPT ![Len(history)].result = Some(result)]
    /\ login_response' = None
    /\ log' = Append(log,
          IF result.tag = "Ok"
          THEN Line("info", "Successfully logged in", Len(inbox))
          ELSE Line("warn", "Failed to log in", result.error))

\* login_with_creds completes: `joined` is what the spawn_blocking handle
\* yields.  An error is returned to the loop; a response starts the sends.
LoginWithCreds(joined) ==
    /\ pc = "auth"
    /\ LET r == login_with_creds(joined)
           history == [logins EXCEPT ![Len(logins)].joined = Some(joined)]
       IN  IF r.tag = "Ok"
           THEN /\ pc' = BootstrapSteps[1]
                /\ login_response' = Some(r.value)
                /\ logins' = history
                /\ UNCHANGED log
           ELSE Returned(r, history)
    /\ UNCHANGED <<panic, inbox, calls, mailbox>>

\* one `mailbox_addr.send(..).await` of handle_login, with the unwraps that
\* build its message: `accepted` is whether the send returned Ok
Send(step, accepted) ==
    /\ pc = step
    /\ LET response == login_response.value
           missing == FirstNone(response, StepUnwraps(step))
           msg == StepMessage(step, response)
       IN  IF missing.tag = "Some"
           THEN /\ accepted
                /\ pc' = "panicked"
                /\ panic' = Some([site |-> missing.value, unwrap |-> "None"])
                /\ UNCHANGED <<calls, mailbox, log, login_response, logins>>
           ELSE /\ calls' = Append(calls, Call(Len(inbox), "send", msg, accepted))
                /\ mailbox' = IF accepted THEN Append(mailbox, msg) ELSE mailbox
                /\ UNCHANGED panic
                /\ IF ~accepted /\ IsFatal(step)
                   THEN Returned(Err(DeliveryError(step, "MailboxError")), logins)
                   ELSE IF StepAfter(step) = "recv"
                   THEN Returned(Ok("unit"), logins)
                   ELSE /\ pc' = StepAfter(step)
                        /\ log' = IF accepted THEN log
                                  ELSE Append(log, Line("warn",
                                         "Failed to send LoginResponse to Mailbox",
                                         "MailboxError"))
                        /\ UNCHANGED <<login_response, logins>>
    /\ UNCHANGED inbox

SendUiMessage == \E accepted \in BOOLEAN : Send("notify", accepted)
SendSession == \E accepted \in BOOLEAN : Send("session", accepted)
SendCircuitCode == \E accepted \in BOOLEAN : Send("circuit_code", accepted)
SendCompleteAgentMovement ==
    \E accepted \in BOOLEAN : Send("complete_agent_movement", accepted)

Next ==
    \/ \E bound \in BOOLEAN : Bind(bound)
    \/ \E received \in RecvOutcomes, accepted \in BOOLEAN : RecvFrom(received, accepted)
    \/ \E joined \in JoinOutcomes : LoginWithCreds(joined)
    \/ SendUiMessage
    \/ SendSession
    \/ SendCircuitCode
    \/ SendCompleteAgentMovement

Spec == Init /\ [][Next]_vars

----------------------------------------------------------------------------
(* The Mailbox's other producer.  The network-facing pipeline is not among  *)
(* the sources: it is modelled from the description of the Mailbox, which   *)
(* takes packets from it at any time, in no order relative to the bridge.   *)

\* packets of the network-facing pipeline that are explored
MaxNetwork == 1

\* a packet decoded from the simulator, which numbers its own sequence
NetworkPacket(i) ==
    [kind |-> "Packet",
     header |-> [id |-> CompleteAgentMovementId, frequency |-> "Low",
                 reliable |-> FALSE, sequence_number |-> 1000 + i,
                 appended_acks |-> FALSE, zerocoded |-> FALSE, resent |-> FALSE,
                 ack_list |-> None, size |-> Some(10)],
     body |-> [type |-> "CompleteAgentMovement",
               data |-> [agent_id |-> AgentUuid, session_id |-> SessionUuid,
                         circuit_code |-> 16909060]]]

FromNetwork(msg) ==
    msg.kind = "Packet" /\ msg.header.sequence_number > 1000

NetworkCount == Len(SelectSeq(mailbox, FromNetwork))

\* the Mailbox takes a packet from the network-facing pipeline
NetworkSend ==
    /\ NetworkCount < MaxNetwork
    /\ mailbox' = Append(mailbox, NetworkPacket(NetworkCount + 1))
    /\ UNCHANGED <<pc, panic, inbox, calls, log, login_response, logins>>

\* one datagram of each kind the loop tells apart: a Login, a packet it
\* forwards, an unregistered type, a datagram too short for a header
NetDatagrams ==
    { LoginDatagram,
      LowHeader(FlagReliable, CircuitCodeId) \o Prefix(WireBody, CircuitCodeSize),
      LowHeader(0, 500),
      << >> }

NetRecvOutcomes == { Ok(d) : d \in NetDatagrams } \cup { Err("io") }

NextNet ==
    \/ \E bound \in BOOLEAN : Bind(bound)
    \/ \E received \in NetRecvOutcomes, accepted \in BOOLEAN :
          RecvFrom(received, accepted)
    \/ \E joined \in JoinOutcomes : LoginWithCreds(joined)
    \/ SendUiMessage
    \/ SendSession
    \/ SendCircuitCode
    \/ SendCompleteAgentMovement
    \/ NetworkSend

SpecNet == Init /\ [][NextNet]_vars

----------------------------------------------------------------------------
(* The CircuitCode codec on the wire: the datagrams are CircuitCode packets *)
(* as Packet::to_bytes writes them, the bridge decodes them.                *)

ZeroUuid == [i \in 1..16 |-> 0]
MaxUuid == [i \in 1..16 |-> 255]

\* CircuitCodeData values: codes with equal and with different bytes, from
\* 0 up to 2^31 - 1, the largest integer the model represents
CircuitCodeValues ==
    [code : {0, 256, 16909060, 2147483647},
     session_id : {SessionUuid, ZeroUuid},
     id : {AgentUuid, MaxUuid}]

CodecDatagrams ==
    { Packet_to_bytes(Packet_new_circuit_code(v)) : v \in CircuitCodeValues }

NextCodec ==
    \/ \E bound \in BOOLEAN : Bind(bound)
    \/ \E d \in CodecDatagrams, accepted \in BOOLEAN : RecvFrom(Ok(d), accepted)

SpecCodec == Init /\ [][NextCodec]_vars

----------------------------------------------------------------------------
(* Vocabulary of the properties *)

\* the calls the bridge made on the Mailbox while handling datagram n
CallsOf(n) == SelectSeq(calls, LAMBDA c : c.datagram = n)

\* what a Mailbox message is: UiMessage, Session, or the packet's body type
Tag(msg) == IF msg.kind = "Packet" THEN msg.body.type ELSE msg.kind

Tags(cs) == [i \in 1..Len(cs) |-> Tag(cs[i].msg)]

\* the handling of datagram n is over and the loop is back at recv_from
Finished(n) == n < Len(inbox) \/ pc = "recv"

\* the login call of bootstrap k yielded a response
Authenticated(k) ==
    /\ logins[k].joined.tag = "Some"
    /\ logins[k].joined.value.tag = "Ok"
    /\ logins[k].joined.value.value.tag = "Ok"

ResponseOf(k) == logins[k].joined.value.value.value

IdentityFields == { "sim_ip", "sim_port", "agent_id", "session_id" }

AllPresent(response) == \A f \in IdentityFields : response[f].tag = "Some"

\* the messages of the calls cs that the Mailbox accepted
Accepted(cs) ==
    LET acc == SelectSeq(cs, LAMBDA c : c.accepted)
    IN  [i \in 1..Len(acc) |-> acc[i].msg]

\* a occurs in b, in order (not necessarily side by side)
RECURSIVE IsSubseq(_, _)
IsSubseq(a, b) ==
    IF a = << >> THEN TRUE
    ELSE IF b = << >> THEN FALSE
    ELSE IF Head(a) = Head(b) THEN IsSubseq(Tail(a), Tail(b))
    ELSE IsSubseq(a, Tail(b))

\* datagram n was received and decoded to a packet
Decoded(n) ==
    /\ inbox[n].received.tag = "Ok"
    /\ inbox[n].decoded.tag = "Ok"

----------------------------------------------------------------------------
(* C1  Bootstrap ordering *)

\* the four messages of a bootstrap of `response`
ExpectedBootstrap(response) ==
    << [kind |-> "UiMessage", event_type |-> "LoginResponseEvent",
        payload |-> [utf8 |-> [json |-> response]]],
       [kind |-> "Session", server_socket |-> response.sim_port.value,
        url |-> response.sim_ip.value, agent_id |-> response.agent_id.value,
        session_id |-> response.session_id.value, socket |-> None] >>

\* C1: a login that authenticates with every identity field present and
\* whose sends are all accepted sends to the Mailbox, in this order, the
\* UiMessage carrying the serialized response, the Session, a CircuitCode
\* packet and a CompleteAgentMovement packet, and nothing else; while it is
\* under way the sends made so far are a prefix of that sequence, so none
\* is issued before the previous one was accepted, and the Mailbox holds
\* them in that order.
C1_BootstrapOrdering ==
    \A k \in 1..Len(logins) :
        LET n == logins[k].datagram
            cs == CallsOf(n)
            order == << "UiMessage", "Session", "CircuitCode",
                        "CompleteAgentMovement" >>
        IN  (/\ Authenticated(k)
             /\ AllPresent(ResponseOf(k))
             /\ \A i \in 1..Len(cs) : cs[i].accepted)
            => /\ Len(cs) <= 4
               /\ Tags(cs) = SubSeq(order, 1, Len(cs))
               /\ \A i \in 1..Len(cs) : cs[i].op = "send"
               /\ \A i \in 1..Len(cs) :
                     i <= 2 => cs[i].msg = ExpectedBootstrap(ResponseOf(k))[i]
               /\ Finished(n) =>
                    /\ Len(cs) = 4
                    /\ logins[k].result = Some(Ok("unit"))
               /\ IsSubseq(Accepted(cs), mailbox)

\* a bootstrap ran to the end with all four sends accepted
C1_Witness ==
    \E k \in 1..Len(logins) :
        /\ logins[k].result = Some(Ok("unit"))
        /\ Len(CallsOf(logins[k].datagram)) = 4
        /\ \A i \in 1..4 : CallsOf(logins[k].datagram)[i].accepted

----------------------------------------------------------------------------
(* C2  Missing-field abort *)

\* C2: when the login call yields a response that lacks an identity field,
\* handle_login returns a MissingIdentityField error, the bridge task does
\* not panic, and nothing was sent to the Mailbox for that login.
C2_MissingFieldAbort ==
    \A k \in 1..Len(logins) :
        (Authenticated(k) /\ ~AllPresent(ResponseOf(k)))
        => /\ CallsOf(logins[k].datagram) = << >>
           /\ panic = None
           /\ Finished(logins[k].datagram) =>
                /\ logins[k].result.tag = "Some"
                /\ logins[k].result.value.tag = "Err"
                /\ logins[k].result.value.error.kind = "MissingIdentityField"

----------------------------------------------------------------------------
(* C3  Login interception *)

\* C3: a datagram that decodes to a Login body is never handed to the
\* Mailbox: the bridge makes no do_send for it, every message it causes is
\* a send of a UiMessage, a Session, a CircuitCode packet or a
\* CompleteAgentMovement packet, and no Login packet is ever in the Mailbox.
C3_LoginInterception ==
    /\ \A n \in 1..Len(inbox) :
          (Decoded(n) /\ inbox[n].decoded.value.body.type = "Login")
          => \A i \in 1..Len(CallsOf(n)) :
                /\ CallsOf(n)[i].op = "send"
                /\ Tag(CallsOf(n)[i].msg) \in
                     { "UiMessage", "Session", "CircuitCode",
                       "CompleteAgentMovement" }
    /\ \A i \in 1..Len(calls) : Tag(calls[i].msg) # "Login"
    /\ \A i \in 1..Len(mailbox) : Tag(mailbox[i]) # "Login"

\* a Login datagram was handled to the end and caused Mailbox messages
C3_Witness ==
    \E n \in 1..Len(inbox) :
        /\ Decoded(n)
        /\ inbox[n].decoded.value.body.type = "Login"
        /\ Finished(n)
        /\ Len(CallsOf(n)) >= 1
        /\ Len(mailbox) >= 1

----------------------------------------------------------------------------
(* C4  Non-Login forwarding *)

\* C4: every datagram that decodes to a non-Login packet causes exactly one
\* Mailbox call, a do_send of a packet whose to_bytes (header bytes, then
\* body bytes) is the datagram as received.
C4_ForwardedUnchanged ==
    \A n \in 1..Len(inbox) :
        (Decoded(n) /\ inbox[n].decoded.value.body.type # "Login")
        => /\ Len(CallsOf(n)) = 1
           /\ CallsOf(n)[1].op = "do_send"
           /\ Packet_to_bytes(CallsOf(n)[1].msg) = inbox[n].received.value

----------------------------------------------------------------------------
(* C5  Malformed datagram is non-fatal *)

\* a warn line of the loop's decode-failure branch for datagram n
DecodeFailureLogged(n) ==
    \E i \in 1..Len(log) :
        log[i] = Line("warn", "Server failed to receive event from UI", n)

\* C5: for a datagram whose header is malformed, Packet::from_bytes yields
\* an error value, the loop logs it, sends nothing to the Mailbox and is
\* back at recv_from: the bridge task has not panicked.
C5_MalformedNonFatal ==
    \A n \in 1..Len(inbox) :
        (/\ inbox[n].received.tag = "Ok"
         /\ Header_try_from_bytes(inbox[n].received.value).tag = "Err")
        => /\ inbox[n].decoded.tag = "Err"
           /\ panic = None
           /\ Finished(n)
           /\ DecodeFailureLogged(n)
           /\ CallsOf(n) = << >>

----------------------------------------------------------------------------
(* C6  Unknown type is non-fatal *)

\* the header of datagram n, when it is well-formed
HeaderOf(n) == Header_try_from_bytes(inbox[n].received.value).value

WellFormed(n) ==
    /\ inbox[n].received.tag = "Ok"
    /\ Header_try_from_bytes(inbox[n].received.value).tag = "Ok"

\* the (frequency, id) pairs a body type is registered for
RegisteredTypes == { << "Low", 3 >>, << "Low", 249 >>, << "Low", 66 >> }

UnknownType(n) ==
    /\ WellFormed(n)
    /\ << HeaderOf(n).frequency, HeaderOf(n).id >> \notin RegisteredTypes

\* C6: for a well-formed header of an unregistered (frequency, id),
\* Packet::from_bytes returns the UnknownMessageType error, the loop logs
\* it, sends nothing to the Mailbox for it and is back at recv_from without
\* a panic; the datagram after it is handled as usual: a valid non-Login
\* packet is forwarded as decoded, a Login starts a bootstrap.
C6_UnknownTypeNonFatal ==
    \A n \in 1..Len(inbox) :
        UnknownType(n)
        => /\ inbox[n].decoded = Err("UnknownMessageType")
           /\ CallsOf(n) = << >>
           /\ DecodeFailureLogged(n)
           /\ n = Len(inbox) => (pc = "recv" /\ panic = None)
           /\ (n < Len(inbox) /\ Decoded(n + 1))
              => IF inbox[n + 1].decoded.value.body.type = "Login"
                 THEN \E k \in 1..Len(logins) : logins[k].datagram = n + 1
                 ELSE /\ Len(CallsOf(n + 1)) = 1
                      /\ CallsOf(n + 1)[1].op = "do_send"
                      /\ CallsOf(n + 1)[1].msg = inbox[n + 1].decoded.value

\* an unknown type was dropped and the next datagram, a valid CircuitCode
\* packet, reached the Mailbox
C6_Witness ==
    /\ Len(inbox) = 2
    /\ UnknownType(1)
    /\ Decoded(2)
    /\ inbox[2].decoded.value.body.type = "CircuitCode"
    /\ mailbox = << inbox[2].decoded.value >>
    /\ pc = "recv"

----------------------------------------------------------------------------
(* C7  Short body rejection, C8  Strict size for CircuitCode *)

\* datagram n has a well-formed header of the CircuitCode type
CircuitCodeHeader(n) ==
    /\ WellFormed(n)
    /\ HeaderOf(n).frequency = "Low"
    /\ HeaderOf(n).id = 3

\* the number of bytes Packet::from_bytes hands to the body decoder
BodyLen(n) == Len(body_bytes(HeaderOf(n), inbox[n].received.value))

\* C7: decoding a CircuitCode body of 35 bytes or fewer, the empty body
\* included, returns the BodyTooShort error; a body of 36 bytes decodes.
C7_ShortBodyRejected ==
    \A n \in 1..Len(inbox) :
        CircuitCodeHeader(n)
        => /\ BodyLen(n) <= 35 => inbox[n].decoded = Err("BodyTooShort")
           /\ BodyLen(n) = 36 => inbox[n].decoded.tag = "Ok"

\* C8: decoding a CircuitCode body of 37 bytes or more fails.
C8_StrictSize ==
    \A n \in 1..Len(inbox) :
        (CircuitCodeHeader(n) /\ ~HeaderOf(n).appended_acks /\ BodyLen(n) >= 37)
        => inbox[n].decoded.tag # "Ok"

----------------------------------------------------------------------------
(* C9  A failed login does not crash the bridge *)

\* bootstrap k has failed: the login call yielded an error, the response
\* lacks an identity field, or a send after the notification was refused
BootstrapFailed(k) ==
    /\ logins[k].joined.tag = "Some"
    /\ \/ ~Authenticated(k)
       \/ ~AllPresent(ResponseOf(k))
       \/ \E i \in 1..Len(CallsOf(logins[k].datagram)) :
             /\ ~CallsOf(logins[k].datagram)[i].accepted
             /\ Tag(CallsOf(logins[k].datagram)[i].msg) # "UiMessage"

\* C9: whatever makes a bootstrap fail, the bridge task does not panic in
\* it, and once handle_login is over it has returned an error that the loop
\* logged before going back to recv_from.
C9_FailedLoginNonFatal ==
    \A k \in 1..Len(logins) :
        BootstrapFailed(k)
        => /\ ~(pc = "panicked" /\ logins[k].datagram = Len(inbox))
           /\ Finished(logins[k].datagram) =>
                /\ logins[k].result.tag = "Some"
                /\ logins[k].result.value.tag = "Err"
                /\ \E i \in 1..Len(log) :
                      log[i] = Line("warn", "Failed to log in",
                                    logins[k].result.value.error)

----------------------------------------------------------------------------
(* C10  Phase-tagged delivery failures *)

\* the error kind that names the phase of a message
PhaseKind(tag) ==
    IF tag = "Session" THEN "Mailbox"
    ELSE IF tag = "CircuitCode" THEN "CircuitCode"
    ELSE "CompleteAgentMovement"

\* the error kind handle_login returned for bootstrap k, "" when it has
\* not returned an error
ReturnedKind(k) ==
    IF logins[k].result.tag = "Some" /\ logins[k].result.value.tag = "Err"
    THEN logins[k].result.value.error.kind ELSE ""

\* C10: a refused send of the Session, of the CircuitCode packet or of the
\* CompleteAgentMovement packet is the last send of its bootstrap and makes
\* handle_login return the error kind of that phase (Mailbox, CircuitCode,
\* CompleteAgentMovement); and a returned error of one of these kinds comes
\* from a refused send of that phase.
C10_PhaseTaggedErrors ==
    \A k \in 1..Len(logins) :
        LET cs == CallsOf(logins[k].datagram)
        IN  /\ \A i \in 1..Len(cs) :
                  (~cs[i].accepted /\ Tag(cs[i].msg) # "UiMessage")
                  => /\ i = Len(cs)
                     /\ ReturnedKind(k) = PhaseKind(Tag(cs[i].msg))
            /\ ReturnedKind(k) \in { "Mailbox", "CircuitCode", "CompleteAgentMovement" }
               => /\ Len(cs) >= 1
                  /\ ~cs[Len(cs)].accepted
                  /\ Tag(cs[Len(cs)].msg) \in
                       { "Session", "CircuitCode", "CompleteAgentMovement" }
                  /\ ReturnedKind(k) = PhaseKind(Tag(cs[Len(cs)].msg))

\* two bootstraps failed in different phases and returned different kinds
C10_Witness ==
    \E j, k \in 1..Len(logins) :
        /\ ReturnedKind(j) = "CircuitCode"
        /\ ReturnedKind(k) = "CompleteAgentMovement"
        /\ Tag(calls[Len(calls)].msg) = "CompleteAgentMovement"
        /\ ~calls[Len(calls)].accepted

----------------------------------------------------------------------------
(* C11  A pending authentication call stalls neither bridge nor Mailbox *)

\* the login call of the bootstrap in hand has not completed
AuthPending == pc = "auth"

\* C11: while the authentication call of a Login is pending, the bridge
\* loop can receive the next control-channel datagram (and forward it when
\* it is a non-Login packet) and the Mailbox can take a packet from its
\* other producer.
C11_AuthNeverStalls ==
    AuthPending
    => /\ Len(inbox) < MaxDatagrams
          => ENABLED (\E received \in NetRecvOutcomes, accepted \in BOOLEAN :
                        RecvFrom(received, accepted))
       /\ NetworkCount < MaxNetwork => ENABLED NetworkSend

----------------------------------------------------------------------------
(* C12 *)

\* the loop has exited: the task running listen_for_ui_messages is over
LoopExited == pc = "panicked"

\* datagram number n is a receive error on the control channel
ReceiveError(n) == inbox[n].received.tag = "Err"

\* C12: the bridge loop exits if and only if the transport fails: after a
\* receive error no further datagram is received, and the loop exits on
\* nothing but a bind error or a receive error.
C12_ExitIffTransportFailure ==
    /\ \A n \in 1..Len(inbox) : ReceiveError(n) => n = Len(inbox) /\ LoopExited
    /\ LoopExited
       => \/ panic.value.site = "bind"
          \/ Len(inbox) > 0 /\ ReceiveError(Len(inbox))

----------------------------------------------------------------------------
(* C13  CircuitCode round trip *)

\* the 36 bytes of v: code little-endian, session UUID, agent UUID
IsLayoutOf(b, v) ==
    /\ Len(b) = 36
    /\ \A k \in 1..36 : b[k] \in Byte
    /\ b[1] + 256 * b[2] + 65536 * b[3] + 16777216 * b[4] = v.code
    /\ \A k \in 1..16 : b[4 + k] = v.session_id[k] /\ b[20 + k] = v.id[k]

RoundTrips(v) ==
    /\ IsLayoutOf(CircuitCodeData_to_bytes(v), v)
    /\ CircuitCodeData_from_bytes(CircuitCodeData_to_bytes(v)) = Ok(v)

\* the values whose encoding datagram n carries
ValuesOf(n) ==
    { v \in CircuitCodeValues :
        inbox[n].received = Ok(Packet_to_bytes(Packet_new_circuit_code(v))) }

\* C13: from_bytes(v.to_bytes()) succeeds and returns v, and v.to_bytes()
\* is the 36 bytes code (little-endian), session UUID, agent UUID; so a
\* CircuitCode packet written by to_bytes is decoded to the value written.
C13_CircuitCodeRoundTrip ==
    /\ \A v \in CircuitCodeValues : RoundTrips(v)
    /\ \A n \in 1..Len(inbox) :
          /\ Cardinality(ValuesOf(n)) = 1
          /\ \A v \in ValuesOf(n) :
                /\ Decoded(n)
                /\ inbox[n].decoded.value.body
                      = [type |-> "CircuitCode", data |-> v]

\* two different values were written, received and decoded
C13_Witness ==
    /\ Len(inbox) = 2
    /\ Decoded(1) /\ Decoded(2)
    /\ inbox[1].decoded.value.body.data.code = 16909060
    /\ inbox[2].decoded.value.body.data.code = 2147483647
    /\ inbox[1].decoded.value.body.data.session_id = ZeroUuid
    /\ inbox[2].decoded.value.body.data.id = MaxUuid

----------------------------------------------------------------------------
(* C14  No internal retry *)

Count(seq, x) == Len(SelectSeq(seq, LAMBDA y : y = x))

IsLoginDatagram(n) == Decoded(n) /\ IsLogin(inbox[n].decoded.value)

BootstrapsOf(n) == { k \in 1..Len(logins) : logins[k].datagram = n }

Succeeded(k) == logins[k].result = Some(Ok("unit"))

Failed(k) == logins[k].result.tag = "Some" /\ logins[k].result.value.tag = "Err"

\* C14: each Login datagram starts one bootstrap, whose login call yields
\* one outcome before anything is sent; each of the four messages is sent
\* at most once per bootstrap, the Session and the two packets exactly once
\* when it succeeds; a failed bootstrap made no call after the one that
\* failed, and no datagram but a Login has a bootstrap.
C14_NoInternalRetry ==
    /\ \A n \in 1..Len(inbox) :
          Cardinality(BootstrapsOf(n)) = IF IsLoginDatagram(n) THEN 1 ELSE 0
    /\ \A k \in 1..Len(logins) :
          LET cs == CallsOf(logins[k].datagram)
              refused == { i \in 1..Len(cs) :
                             ~cs[i].accepted /\ Tag(cs[i].msg) # "UiMessage" }
          IN  /\ \A t \in { "UiMessage", "Session", "CircuitCode",
                            "CompleteAgentMovement" } : Count(Tags(cs), t) <= 1
              /\ Succeeded(k)
                 => \A t \in { "Session", "CircuitCode", "CompleteAgentMovement" } :
                       Count(Tags(cs), t) = 1
              /\ refused \subseteq { Len(cs) }
              /\ Failed(k) /\ Authenticated(k) => refused = { Len(cs) }
              /\ Failed(k) /\ ~Authenticated(k) => cs = << >>
              /\ logins[k].joined.tag = "None"
                 => k = Len(logins) /\ pc = "auth" /\ cs = << >>

\* a bootstrap failed at its Session, nothing was sent after; the next
\* Login datagram started a new bootstrap, which sent each message once
C14_Witness ==
    /\ Len(logins) = 2
    /\ Failed(1) /\ Tags(CallsOf(logins[1].datagram)) = << "UiMessage", "Session" >>
    /\ Succeeded(2)
    /\ Len(CallsOf(logins[2].datagram)) = 4

----------------------------------------------------------------------------
(* C15  Trailing acknowledgments *)

\* the bytes at the end of datagram n that hold the appended
\* acknowledgments: 4 per sequence number, and the count byte
AckBytes(n) == 4 * Len(HeaderOf(n).ack_list.value) + 1

\* C15: when the header of a datagram has appended_acks set, the slice
\* handed to the type registry starts at header.size and ends before the
\* acknowledged sequence numbers and their count byte.
C15_AcksExcludedFromBody ==
    \A n \in 1..Len(inbox) :
        WellFormed(n) /\ HeaderOf(n).appended_acks
        => LET bytes == inbox[n].received.value
               size == HeaderOf(n).size.value
           IN  body_bytes(HeaderOf(n), bytes)
                  = Slice(bytes, size, Len(bytes) - AckBytes(n))

----------------------------------------------------------------------------
(* C16  Fail-stop after a delivery failure *)

\* call i of cs is a send of the message `tag` (that the Mailbox accepted)
IsSendOf(cs, i, tag) == Tag(cs[i].msg) = tag
AcceptedBefore(cs, i, tag) ==
    \E j \in 1..(i - 1) : IsSendOf(cs, j, tag) /\ cs[j].accepted

\* C16: a refused send of the Session, the CircuitCode packet or the
\* CompleteAgentMovement packet is the last call of its bootstrap, which
\* has returned an error; a CircuitCode packet is sent only after an
\* accepted Session, a CompleteAgentMovement packet only after an accepted
\* CircuitCode packet.
C16_FailStop ==
    \A k \in 1..Len(logins) :
        LET cs == CallsOf(logins[k].datagram)
        IN  \A i \in 1..Len(cs) :
              /\ ~cs[i].accepted /\ ~IsSendOf(cs, i, "UiMessage")
                 => i = Len(cs) /\ Failed(k)
              /\ IsSendOf(cs, i, "CircuitCode") => AcceptedBefore(cs, i, "Session")
              /\ IsSendOf(cs, i, "CompleteAgentMovement")
                 => AcceptedBefore(cs, i, "CircuitCode")

\* the CircuitCode packet of a bootstrap was refused; the bridge has
\* handled another datagram since and the bootstrap made no further call
C16_Witness ==
    /\ Len(inbox) = 2 /\ pc = "recv"
    /\ Len(logins) = 1 /\ logins[1].datagram = 1
    /\ Tags(CallsOf(1)) = << "UiMessage", "Session", "CircuitCode" >>
    /\ ~CallsOf(1)[3].accepted
    /\ Failed(1)

----------------------------------------------------------------------------
(* C17  Authentication failure *)

\* the login call of bootstrap k is over and yielded no response: it
\* returned an error, or the blocking task did not join
AuthenticationFailed(k) == logins[k].joined.tag = "Some" /\ ~Authenticated(k)

\* C17: when the login call returns an error or its blocking task fails to
\* join, handle_login returns a login error and sends nothing to the
\* Mailbox; while no login has yielded a response the Mailbox holds no
\* UiMessage and no Session.
C17_AuthFailureLeavesMailbox ==
    /\ \A k \in 1..Len(logins) :
          AuthenticationFailed(k)
          => /\ Failed(k)
             /\ logins[k].result.value.error.kind = "Login"
             /\ CallsOf(logins[k].datagram) = << >>
    /\ (\A k \in 1..Len(logins) : ~Authenticated(k))
       => \A i \in 1..Len(mailbox) : mailbox[i].kind = "Packet"

\* a login was refused and the join of another failed: both bootstraps
\* returned and no call was made on the Mailbox
C17_Witness ==
    /\ Len(logins) = 2
    /\ logins[1].joined = Some(Ok(Err([reason |-> "Presence"])))
    /\ logins[2].joined = Some(Err("JoinError"))
    /\ AuthenticationFailed(1) /\ AuthenticationFailed(2)
    /\ calls = << >>

----------------------------------------------------------------------------
(* C18  Success means all three phases were accepted *)

Phases == << "Session", "CircuitCode", "CompleteAgentMovement" >>

\* the messages of bootstrap k that the Mailbox accepted, by tag
AcceptedTags(k) ==
    Tags(SelectSeq(CallsOf(logins[k].datagram), LAMBDA c : c.accepted))

\* bootstrap k is in flight, about to send the message of `step`
InFlightAt(k, step) == k = Len(logins) /\ pc = step

\* C18: handle_login returns Ok only if the Session, the CircuitCode packet
\* and the CompleteAgentMovement packet were accepted by the Mailbox, in
\* that order; the bootstrap is past its CircuitCode step only after that
\* packet was accepted, and past its Session step only after the Session
\* was.
C18_SuccessMeansAccepted ==
    \A k \in 1..Len(logins) :
        /\ Succeeded(k)
           => /\ IsSubseq(Phases, AcceptedTags(k))
              /\ IsSubseq(Phases, [i \in 1..Len(mailbox) |-> Tag(mailbox[i])])
        /\ InFlightAt(k, "complete_agent_movement")
           => IsSubseq(SubSeq(Phases, 1, 2), AcceptedTags(k))
        /\ InFlightAt(k, "circuit_code")
           => IsSubseq(SubSeq(Phases, 1, 1), AcceptedTags(k))

\* a bootstrap returned Ok with its three phases in the Mailbox
C18_Witness ==
    /\ Len(logins) = 1 /\ Succeeded(1)
    /\ AcceptedTags(1) = << "UiMessage" >> \o Phases
    /\ Len(mailbox) = 4

----------------------------------------------------------------------------
(* C19  Notification failure *)

\* the Mailbox refused the login notification of bootstrap k
NotificationRefused(k) ==
    LET cs == CallsOf(logins[k].datagram)
    IN  Len(cs) >= 1 /\ IsSendOf(cs, 1, "UiMessage") /\ ~cs[1].accepted

NotificationWarnings ==
    SelectSeq(log, LAMBDA l : l.text = "Failed to send LoginResponse to Mailbox")

RefusedNotifications ==
    SelectSeq(calls, LAMBDA c : Tag(c.msg) = "UiMessage" /\ ~c.accepted)

\* C19: a refused login notification is logged, once, and the bootstrap
\* goes on: with every identity field present the Session is sent next,
\* and an error the bootstrap returns is the error of a later send, never
\* of the notification.
C19_NotificationNotFatal ==
    /\ Len(NotificationWarnings) = Len(RefusedNotifications)
    /\ \A k \in 1..Len(logins) :
          NotificationRefused(k)
          => LET cs == CallsOf(logins[k].datagram)
             IN  /\ Len(cs) = 1
                    => /\ InFlightAt(k, "session") \/ LoopExited
                       /\ AllPresent(ResponseOf(k)) => ENABLED SendSession
                       /\ logins[k].result = None
                 /\ Len(cs) >= 2 => IsSendOf(cs, 2, "Session")
                 /\ Failed(k) => /\ Len(cs) >= 2 /\ ~cs[Len(cs)].accepted
                                 /\ logins[k].result.value.error.kind
                                      \in { "Mailbox", "CircuitCode",
                                            "CompleteAgentMovement" }

\* the notification was refused, the three phases were accepted and the
\* bootstrap returned Ok
C19_Witness ==
    /\ Len(logins) = 1 /\ NotificationRefused(1) /\ Succeeded(1)
    /\ AcceptedTags(1) = Phases
    /\ Len(NotificationWarnings) = 1

----------------------------------------------------------------------------
(* C20  Bridge-side serialization of bootstraps *)

\* bootstrap k has been started and handle_login has not returned
InFlight(k) == logins[k].result = None

\* the positions inside handle_login
InBootstrap == pc = "auth" \/ \E i \in 1..Len(BootstrapSteps) : pc = BootstrapSteps[i]

\* the messages at the Mailbox that the bridge sent
BridgeMailbox == SelectSeq(mailbox, LAMBDA m : ~FromNetwork(m))

\* C20: at most one bootstrap is in flight, and while it is the loop
\* receives nothing: it belongs to the last datagram received.  The calls
\* made for one datagram are side by side in the order of calls, a
\* forwarded packet alone and the sends of a bootstrap together, and the
\* Mailbox holds the bridge's accepted messages in that order: nothing the
\* bridge forwards and no message of another bootstrap lies between the
\* messages of one bootstrap.
C20_BootstrapsSerialized ==
    /\ Cardinality({ k \in 1..Len(logins) : InFlight(k) }) <= 1
    /\ \A k \in 1..Len(logins) :
          InFlight(k) /\ ~LoopExited
          => k = Len(logins) /\ logins[k].datagram = Len(inbox) /\ InBootstrap
    /\ InBootstrap => Len(logins) > 0 /\ InFlight(Len(logins))
    /\ \A i, j, l \in 1..Len(calls) :
          i < j /\ j < l /\ calls[i].datagram = calls[l].datagram
          => calls[j].datagram = calls[i].datagram
    /\ \A n \in 1..Len(inbox) :
          LET cs == CallsOf(n)
          IN  IF IsLoginDatagram(n)
              THEN \A i \in 1..Len(cs) : cs[i].op = "send"
              ELSE Len(cs) <= 1 /\ \A i \in 1..Len(cs) : cs[i].op = "do_send"
    /\ BridgeMailbox = Accepted(calls)

\* a bootstrap returned Ok and a packet was forwarded after it; a packet
\* of the network-facing pipeline lies between the messages of the
\* bootstrap, the forwarded packet after them
C20_Witness ==
    /\ Len(inbox) = 2 /\ Len(logins) = 1 /\ logins[1].datagram = 1
    /\ Succeeded(1)
    /\ Len(mailbox) = 6
    /\ Tag(mailbox[1]) = "UiMessage"
    /\ \E i \in 2..4 : FromNetwork(mailbox[i])
    /\ mailbox[6] = calls[5].msg /\ calls[5].op = "do_send"

====
